---- MODULE Spec2Model ----
(***************************************************************************)
(* Excel Active Directory Portal (streamlit_ad_portal_app.py).             *)
(*                                                                         *)
(* The portal keeps two tables, Employees and Departments, in the session  *)
(* (df_emp, df_dept) and in one workbook file.  Every handler of the       *)
(* script is one action: it reads the session tables, mutates them and     *)
(* rewrites the workbook.                                                  *)
(*                                                                         *)
(* Text is modelled as a sequence of one-character strings, so that        *)
(* str.strip(), str.lower() and sorted() are computed, not assumed.        *)
(* Columns modelled: Row ID, Employee ID, Name, Extension, Department,     *)
(* Status, Last Updated (Employees); Dept ID, Department Name, Description *)
(* (Departments).  Cell Number, Location and Notes are carried by no       *)
(* handler logic beyond being copied and are left out.                     *)
(***************************************************************************)
EXTENDS Naturals, Integers, Sequences, FiniteSets, TLC

VARIABLES
    df_emp,             \* st.session_state.df_emp: sequence of employee rows
    df_dept,            \* st.session_state.df_dept: sequence of department rows
    file,               \* the workbook at EXCEL_PATH: [emp |-> rows, dept |-> rows]
    sync_dept_actions,  \* st.session_state.sync_dept_actions (insertion-ordered dict)
    show_dept_sync,     \* st.session_state.show_dept_sync
    sync_widgets,       \* the widgets of the sync panel, by orphaned name
    dept_manage_actions,\* st.session_state.dept_manage_actions (insertion-ordered dict)
    show_dept_manage,   \* st.session_state.show_dept_manage
    manage_widgets,     \* the widgets of the manage panel, by Dept ID
    now,                \* the clock read by datetime.utcnow()
    tmp,                \* the temporary file of write_workbook and how far it got
    assigned,           \* history: every Row ID handed out by an addition so far
    last                \* history: the handler that ran last and how it ended

vars == <<df_emp, df_dept, file, sync_dept_actions, show_dept_sync,
          sync_widgets, dept_manage_actions, show_dept_manage, manage_widgets,
          now, tmp, assigned, last>>

----------------------------------------------------------------------------
(* Bounds of the model.                                                    *)

MaxEmp == 2        \* most employee rows held at once
MaxRowId == 3      \* additions stop once this Row ID has been handed out
MaxDeptId == 3     \* departments are created until this Dept ID is handed out
MaxBatch == 2      \* most rows in one bulk-import file

----------------------------------------------------------------------------
(* Text.                                                                   *)

\* The empty string "".
Blank == <<>>

\* A cell pandas reads as missing (float NaN).  str(NaN) is "nan".
NaN == <<"<NaN>">>

IsNa(v) == v = NaN

\* Series.astype(str) / str(value) on one cell.
AsStr(v) == IF v = NaN THEN <<"n", "a", "n">> ELSE v

\* Code point order of the characters used, as Python compares str.
Code(c) ==
    CASE c = " " -> 32
      [] c = "1" -> 49
      [] c = "2" -> 50
      [] c = "3" -> 51
      [] c = "A" -> 65
      [] c = "B" -> 66
      [] c = "C" -> 67
      [] c = "a" -> 97
      [] c = "b" -> 98
      [] c = "c" -> 99
      [] c = "n" -> 110
      [] OTHER   -> 127

\* str.lower() on one character.
LowerChar(c) ==
    CASE c = "A" -> "a"
      [] c = "B" -> "b"
      [] c = "C" -> "c"
      [] OTHER   -> c

\* str.lower()
Lower(s) == [i \in 1..Len(s) |-> LowerChar(s[i])]

RECURSIVE LStrip(_)
LStrip(s) == IF s # <<>> /\ Head(s) = " " THEN LStrip(Tail(s)) ELSE s

RECURSIVE RStrip(_)
RStrip(s) ==
    IF s # <<>> /\ s[Len(s)] = " " THEN RStrip(SubSeq(s, 1, Len(s) - 1)) ELSE s

\* str.strip()
Strip(s) == RStrip(LStrip(s))

\* s < t as Python compares two str values.
RECURSIVE StrLess(_, _)
StrLess(s, t) ==
    IF t = <<>> THEN FALSE
    ELSE IF s = <<>> THEN TRUE
    ELSE IF Head(s) # Head(t) THEN Code(Head(s)) < Code(Head(t))
    ELSE StrLess(Tail(s), Tail(t))

\* sorted(S) for a set of str values.
RECURSIVE Sorted(_)
Sorted(S) ==
    IF S = {} THEN <<>>
    ELSE LET m == CHOOSE x \in S : \A y \in S \ {x} : StrLess(x, y)
         IN  <<m>> \o Sorted(S \ {m})

Range(s) == {s[i] : i \in 1..Len(s)}

\* The largest element of a non-empty set of numbers (Series.max()).
MaxOf(S) == CHOOSE m \in S : \A x \in S : x <= m

----------------------------------------------------------------------------
(* Cells and rows.                                                         *)

\* The two values of the Status selectbox; each is one opaque token.
Active == <<"Active">>
Inactive == <<"Inactive">>

\* A blank Row ID cell of a workbook (an employee the portal never numbered).
\* Row IDs the portal hands out start at 1.
NoRowId == 0

\* A Row ID cell that holds a text which is no number: int() raises on it,
\* and Series.max() raises when it stands among numbers.
TextRowId == -1

\* A Last Updated cell that holds no timestamp.
NoStamp == 0

EmpRow(rid, eid, name, ext, dept, status, stamp) ==
    [RowID |-> rid, EmployeeID |-> eid, Name |-> name, Extension |-> ext,
     Department |-> dept, Status |-> status, LastUpdated |-> stamp]

DeptRow(did, name, desc) ==
    [DeptID |-> did, DepartmentName |-> name, Description |-> desc]

\* How to_excel stores one text cell: a missing value becomes an empty cell.
WriteCell(v) == IF v = NaN THEN Blank ELSE v

\* How read_excel returns one text cell: an empty cell is a missing value,
\* and so is the text "nan" (one of the default na_values).
ReadCell(v) == IF v \in {Blank, <<"n", "a", "n">>} THEN NaN ELSE v

WriteEmpRow(r) ==
    EmpRow(r.RowID, WriteCell(r.EmployeeID), WriteCell(r.Name),
           WriteCell(r.Extension), WriteCell(r.Department),
           WriteCell(r.Status), r.LastUpdated)

WriteDeptRow(d) ==
    DeptRow(d.DeptID, WriteCell(d.DepartmentName), WriteCell(d.Description))

\* The save that leaves the Departments sheet out.
write_workbook_emp_only(emp, dept) ==
    [emp  |-> [i \in 1..Len(emp) |-> WriteEmpRow(emp[i])],
     dept |-> <<>>]

\* write_workbook: both sheets are written to a temporary file that then
\* replaces the workbook.
write_workbook(emp, dept) ==
    [emp  |-> [i \in 1..Len(emp) |-> WriteEmpRow(emp[i])],
     dept |-> [i \in 1..Len(dept) |-> WriteDeptRow(dept[i])]]

\* The fill loop without its "max_id += 1".
RECURSIVE FillRowIds_same(_, _)
FillRowIds_same(rows, max_id) ==
    IF rows = <<>> THEN <<>>
    ELSE IF Head(rows).RowID = NoRowId
         THEN <<[Head(rows) EXCEPT !.RowID = max_id + 1]>>
              \o FillRowIds_same(Tail(rows), max_id)
         ELSE <<Head(rows)>> \o FillRowIds_same(Tail(rows), max_id)

\* The fill loop with every row taken as lacking its Row ID.
RECURSIVE FillRowIds_renumber(_, _)
FillRowIds_renumber(rows, max_id) ==
    IF rows = <<>> THEN <<>>
    ELSE <<[Head(rows) EXCEPT !.RowID = max_id + 1]>>
         \o FillRowIds_renumber(Tail(rows), max_id + 1)

\* read_workbook, lines 91-107: rows without a Row ID are numbered after the
\* largest Row ID present, in row order.
RECURSIVE FillRowIds(_, _)
FillRowIds(rows, max_id) ==
    IF rows = <<>> THEN <<>>
    ELSE IF Head(rows).RowID = NoRowId
         THEN <<[Head(rows) EXCEPT !.RowID = max_id + 1]>>
              \o FillRowIds(Tail(rows), max_id + 1)
         ELSE <<Head(rows)>> \o FillRowIds(Tail(rows), max_id)

ReadEmpRow(r) ==
    EmpRow(r.RowID, ReadCell(r.EmployeeID), ReadCell(r.Name),
           ReadCell(r.Extension), ReadCell(r.Department),
           ReadCell(r.Status), r.LastUpdated)

\* read_workbook, lines 86-89 and 110-111: Department Name goes through
\* astype(str), Description through astype(str).replace('nan', '').
ReadDeptRow(d) ==
    DeptRow(d.DeptID, AsStr(ReadCell(d.DepartmentName)),
            IF ReadCell(d.Description) = NaN THEN Blank ELSE d.Description)

read_workbook(f) ==
    LET rows == [i \in 1..Len(f.emp) |-> ReadEmpRow(f.emp[i])]
        have == {rows[i].RowID : i \in 1..Len(rows)} \ {NoRowId}
        max_id == IF have = {} \/ TextRowId \in have THEN 0 ELSE MaxOf(have)
    IN  [emp  |-> FillRowIds(rows, max_id),
         dept |-> [i \in 1..Len(f.dept) |-> ReadDeptRow(f.dept[i])]]

RowIds(emp) == {emp[i].RowID : i \in 1..Len(emp)}

\* The allocator counting rows instead of taking the largest Row ID.
next_row_id_count(emp) == Len(emp) + 1

\* next_row_id (lines 138-148): 1 for an empty table or one without any
\* Row ID, else the largest Row ID plus one; when int(existing.max())
\* raises, the number of rows plus one.
next_row_id(emp) ==
    LET existing == RowIds(emp) \ {NoRowId}
    IN  IF emp = <<>> \/ existing = {} THEN 1
        ELSE IF TextRowId \in existing THEN Len(emp) + 1
        ELSE MaxOf(existing) + 1

\* next_dept_id: the largest numeric Dept ID plus one, 1 when there is none.
next_dept_id(dept) ==
    IF dept = <<>> THEN 1
    ELSE MaxOf({dept[i].DeptID : i \in 1..Len(dept)}) + 1

\* The options of every Department selectbox (lines 385-391): the distinct
\* stripped, non-empty department names of the saved workbook, sorted.
dept_options ==
    LET d == read_workbook(file).dept
        names == {Strip(AsStr(d[i].DepartmentName)) : i \in 1..Len(d)}
    IN  Sorted({n \in names : n # Blank /\ n # AsStr(NaN)})

\* The first of the row indices that matched a lookup, 0 when none did.
FirstIndex(matches) ==
    IF matches = {} THEN 0
    ELSE CHOOSE i \in matches : \A j \in matches : i <= j

\* DataFrame.drop(index=i).reset_index(drop=True)
DropAt(rows, i) == SubSeq(rows, 1, i - 1) \o SubSeq(rows, i + 1, Len(rows))

\* What the handler that ran last did: its name, the branch it ended in,
\* whether it called write_workbook, the Row IDs it handed out and those of
\* them that had been handed out before.
Did(op, res, wrote) ==
    [op |-> op, res |-> res, wrote |-> wrote, ids |-> {}, reused |-> {}]

DidAdd(op, ids) ==
    [op |-> op, res |-> "ok", wrote |-> TRUE, ids |-> ids,
     reused |-> ids \cap assigned]

NoFunction == [x \in {} |-> x]

\* No write_workbook is under way and none has left a temporary file.
NoSave == [pc |-> "none"]

----------------------------------------------------------------------------
(* The Sync Departments panel (lines 1570-1888): what one script run       *)
(* records while the panel is shown.                                       *)

\* Lines 1588-1594: the stripped department texts of the saved employees
\* that are no stripped Department Name of the saved departments.
EmpDepts(f) ==
    LET e == read_workbook(f).emp
    IN  {Strip(AsStr(e[i].Department)) : i \in 1..Len(e)}
            \ {Blank, AsStr(NaN)}

ExistingDepts(f) ==
    LET d == read_workbook(f).dept
    IN  {Strip(AsStr(d[i].DepartmentName)) : i \in 1..Len(d)}
            \ {Blank, AsStr(NaN)}

MissingDepts(f) == EmpDepts(f) \ ExistingDepts(f)

\* An insertion-ordered dict is a sequence of [key, action]: assigning to a
\* key it holds keeps the key's place, a new key goes last.
Keys(d) == {d[i].key : i \in 1..Len(d)}

DictGet(d, k) == d[CHOOSE i \in 1..Len(d) : d[i].key = k].action

DictPut(d, k, v) ==
    IF k \in Keys(d)
    THEN [i \in 1..Len(d) |-> IF d[i].key = k THEN [key |-> k, action |-> v]
                                              ELSE d[i]]
    ELSE Append(d, [key |-> k, action |-> v])

DictDel(d, k) == SelectSeq(d, LAMBDA p : p.key # k)

\* The description recorded when the description box is left empty.
SyncedDescription == <<"Synced from employee records">>

\* The widgets of an orphaned name drawn for the first time: the first
\* radio option, "Rename?" unticked.
SyncDefaultChoice == [action |-> "create", rename |-> FALSE]

\* A selectbox whose stored value is no longer among its options shows its
\* first option, "".
SyncNormalise(dept_name, w, missing, existing) ==
    IF w.action = "merge" /\ w.merge_target \notin missing \ {dept_name}
    THEN [action |-> "merge", merge_target |-> Blank, custom |-> FALSE]
    ELSE IF w.action = "map" /\ w.target \notin existing
    THEN [action |-> "map", target |-> Blank]
    ELSE w

\* What to record for something that records nothing.
NoEntry == [action |-> "none"]

\* Lines 1620-1714: the entry the widgets w of dept_name record in
\* sync_dept_actions, NoEntry when they record none.
SyncEntry(dept_name, w, missing, existing) ==
    CASE w.action = "create" ->
            IF w.rename
            THEN IF /\ Strip(w.new_name) # Blank
                    /\ Lower(Strip(w.new_name)) \in {Lower(n) : n \in existing}
                 THEN NoEntry
                 ELSE [action |-> "create",
                       new_name |-> IF w.new_name # Blank
                                    THEN Strip(w.new_name) ELSE dept_name,
                       description |-> SyncedDescription]
            ELSE [action |-> "create", new_name |-> Strip(dept_name),
                  description |-> SyncedDescription]
      [] w.action = "merge" ->
            IF w.merge_target = Blank THEN NoEntry
            ELSE [action |-> "merge", merge_target |-> w.merge_target,
                  merged_name |-> IF w.custom /\ w.merged_name # Blank
                                  THEN Strip(w.merged_name)
                                  ELSE w.merge_target]
      [] w.action = "map" ->
            IF w.target = Blank THEN NoEntry
            ELSE [action |-> "map", target |-> w.target]
      [] w.action = "remove" -> [action |-> "remove"]

\* The widgets the panel shows for the orphaned names of workbook f.
SyncWidgetsShown(widgets, f) ==
    [n \in MissingDepts(f) |->
        IF n \in DOMAIN widgets
        THEN SyncNormalise(n, widgets[n], MissingDepts(f), ExistingDepts(f))
        ELSE SyncDefaultChoice]

\* Lines 1606-1714: the loop over sorted(missing_depts).
RECURSIVE SyncRecord(_, _, _, _, _)
SyncRecord(names, widgets, missing, existing, actions) ==
    IF names = <<>> THEN actions
    ELSE LET e == SyncEntry(Head(names), widgets[Head(names)], missing, existing)
         IN  SyncRecord(Tail(names), widgets, missing, existing,
                        IF e = NoEntry THEN actions
                        ELSE DictPut(actions, Head(names), e))

SyncRender(actions, widgets, f) ==
    SyncRecord(Sorted(MissingDepts(f)), SyncWidgetsShown(widgets, f),
               MissingDepts(f), ExistingDepts(f), actions)

----------------------------------------------------------------------------
(* The Manage Departments panel (lines 1893-2181): what one script run     *)
(* records while the panel is shown.  The search box is left empty.        *)

\* The widgets of a department drawn for the first time: "No Change".
ManageDefaultChoice == [action |-> "nochange"]

\* Line 1937: the saved employees whose stripped department is dept_name.
EmpCount(emp, dept_name) ==
    Cardinality({i \in 1..Len(emp) :
                    Strip(AsStr(emp[i].Department)) = dept_name})

\* Line 1993: the names of the other saved departments.
OtherDepts(dept, dept_id) ==
    {Strip(AsStr(dept[i].DepartmentName)) :
        i \in {j \in 1..Len(dept) : dept[j].DeptID # dept_id}}

\* The merge selectbox falls back to "" when its value is no option any
\* more; the confirm checkbox is not drawn while employees are assigned.
ManageNormalise(row, w, emp, dept) ==
    IF w.action = "merge" /\ w.merge_target \notin OtherDepts(dept, row.DeptID)
    THEN [action |-> "merge", merge_target |-> Blank, merge_mode |-> "keep1",
          final_name |-> Blank]
    ELSE IF /\ w.action = "delete"
            /\ EmpCount(emp, Strip(AsStr(row.DepartmentName))) > 0
    THEN [action |-> "delete", confirm |-> FALSE]
    ELSE w

\* Lines 1954-2061: the entry the widgets w of one department row record in
\* dept_manage_actions, NoEntry when they record none.
ManageEntry(row, w, emp, dept) ==
    LET dept_id == row.DeptID
        dept_name == Strip(AsStr(row.DepartmentName))
        dept_desc == Strip(AsStr(row.Description))
    IN
    CASE w.action = "nochange" -> NoEntry
      [] w.action = "rename" ->
            IF w.new_name # Blank /\ Strip(w.new_name) # dept_name
            THEN IF Lower(Strip(w.new_name)) \in
                      {Lower(dept[i].DepartmentName) :
                          i \in {j \in 1..Len(dept) :
                                    /\ dept[j].DepartmentName # Blank
                                    /\ Lower(Strip(dept[j].DepartmentName))
                                          # Lower(dept_name)}}
                 THEN NoEntry
                 ELSE [action |-> "rename", old_name |-> dept_name,
                       new_name |-> Strip(w.new_name), new_desc |-> dept_desc]
            ELSE NoEntry
      [] w.action = "merge" ->
            IF w.merge_target = Blank THEN NoEntry
            ELSE
            LET target_dept_id ==
                    dept[FirstIndex({i \in 1..Len(dept) :
                            Strip(AsStr(dept[i].DepartmentName))
                                = w.merge_target})].DeptID
                final_name == CASE w.merge_mode = "keep1" -> dept_name
                                [] w.merge_mode = "keep2" -> w.merge_target
                                [] OTHER -> w.final_name
                delete_id == IF w.merge_mode = "keep2" THEN dept_id
                             ELSE target_dept_id
            IN  IF Strip(final_name) = Blank THEN NoEntry
                ELSE [action |-> "merge_two", dept1_name |-> dept_name,
                      dept1_id |-> dept_id, dept2_name |-> w.merge_target,
                      dept2_id |-> target_dept_id,
                      final_name |-> Strip(final_name), delete_id |-> delete_id]
      [] w.action = "delete" ->
            IF EmpCount(emp, dept_name) = 0 /\ w.confirm
            THEN [action |-> "delete", old_name |-> dept_name]
            ELSE NoEntry

\* The widgets the panel shows for the departments of workbook f.
ManageWidgetsShown(widgets, f) ==
    LET emp == read_workbook(f).emp
        dept == read_workbook(f).dept
    IN  [id \in {dept[i].DeptID : i \in 1..Len(dept)} |->
            IF id \in DOMAIN widgets
            THEN ManageNormalise(
                     dept[FirstIndex({i \in 1..Len(dept) :
                                         dept[i].DeptID = id})],
                     widgets[id], emp, dept)
            ELSE ManageDefaultChoice]

\* Lines 1930-2061: the loop over the saved department rows; "No Change"
\* removes the entry of the department (lines 1950-1952).
RECURSIVE ManageRecord(_, _, _, _, _)
ManageRecord(rows, widgets, emp, dept, actions) ==
    IF rows = <<>> THEN actions
    ELSE LET w == widgets[Head(rows).DeptID]
             e == ManageEntry(Head(rows), w, emp, dept)
         IN  ManageRecord(Tail(rows), widgets, emp, dept,
                 IF w.action = "nochange" THEN DictDel(actions, Head(rows).DeptID)
                 ELSE IF e = NoEntry THEN actions
                 ELSE DictPut(actions, Head(rows).DeptID, e))

ManageRender(actions, widgets, f) ==
    ManageRecord(read_workbook(f).dept, ManageWidgetsShown(widgets, f),
                 read_workbook(f).emp, read_workbook(f).dept, actions)

\* The rest of a script run: the panels that are shown are drawn from the
\* workbook as the handler left it and record their entries into the dicts
\* sa and ma; the widgets of a panel that is not drawn are forgotten.
PanelsDrawn(sa, sw, ma, mw) ==
    /\ UNCHANGED tmp
    /\ sync_widgets' = IF show_dept_sync' THEN SyncWidgetsShown(sw, file')
                       ELSE NoFunction
    /\ sync_dept_actions' = IF show_dept_sync' THEN SyncRender(sa, sw, file')
                            ELSE sa
    /\ manage_widgets' = IF show_dept_manage' THEN ManageWidgetsShown(mw, file')
                         ELSE NoFunction
    /\ dept_manage_actions' = IF show_dept_manage'
                              THEN ManageRender(ma, mw, file')
                              ELSE ma

\* A handler outside the panels: the flags and the dicts are not touched by
\* it, and the panels are drawn after it.  A write_workbook called by a
\* handler ran to its end by then: no temporary file is left.
RestOfRun ==
    /\ UNCHANGED <<show_dept_sync, show_dept_manage, now>>
    /\ PanelsDrawn(sync_dept_actions, sync_widgets,
                   dept_manage_actions, manage_widgets)

----------------------------------------------------------------------------
(* Employees: Quick Add, the edit form, Reload.                            *)

EmployeeIdStrs(emp) == {AsStr(emp[i].EmployeeID) : i \in 1..Len(emp)}

\* "Reload from Excel" (lines 287-289).
ReloadFromExcel ==
    /\ df_emp' = read_workbook(file).emp
    /\ df_dept' = read_workbook(file).dept
    /\ last' = Did("reload", "ok", FALSE)
    /\ UNCHANGED <<file, assigned>>
    /\ RestOfRun

\* The test as "eid in Series", which looks eid up among the index labels.
AddIsDuplicate_index(eid, emp) == FALSE

\* The duplicate test of the Quick Add form (line 846).
AddIsDuplicate(eid, emp) == eid # Blank /\ eid \in EmployeeIdStrs(emp)

\* Submitting the Quick Add form (lines 837-867).
AddEmployee(new_empid, new_name, new_extension, new_department, new_status) ==
    LET eid == Strip(new_empid)
        row_id == next_row_id(df_emp)
        new_row == EmpRow(row_id, eid, new_name, new_extension,
                          new_department, new_status, now)
    IN
    /\ new_department \in {Blank} \cup Range(dept_options)
    /\ IF new_name = Blank
       THEN /\ last' = Did("add_emp", "no_name", FALSE)
            /\ UNCHANGED <<df_emp, file, assigned>>
       ELSE IF new_extension = Blank
       THEN /\ last' = Did("add_emp", "no_extension", FALSE)
            /\ UNCHANGED <<df_emp, file, assigned>>
       ELSE IF AddIsDuplicate(eid, df_emp)
       THEN /\ last' = Did("add_emp", "duplicate", FALSE)
            /\ UNCHANGED <<df_emp, file, assigned>>
       ELSE /\ Len(df_emp) < MaxEmp
            /\ row_id <= MaxRowId
            /\ df_emp' = Append(df_emp, new_row)
            /\ file' = write_workbook(df_emp', df_dept)
            /\ assigned' = assigned \cup {row_id}
            /\ last' = DidAdd("add_emp", {row_id})
    /\ UNCHANGED df_dept
    /\ RestOfRun

\* An edit form whose duplicate test never fires.
EditIsDuplicate_never(new_employee_id, row, emp) == FALSE

\* The duplicate test of the edit form (lines 676-678).
EditIsDuplicate(new_employee_id, row, emp) ==
    /\ new_employee_id # AsStr(row.EmployeeID)
    /\ new_employee_id # Blank
    /\ new_employee_id \in EmployeeIdStrs(emp)

\* "Save Changes" of the edit form opened on Row ID edit_id (lines 638-720).
UpdateEmployee(edit_id, employee_id, name, extension, department, status) ==
    LET idx == FirstIndex({i \in 1..Len(df_emp) : df_emp[i].RowID = edit_id})
        row == df_emp[idx]
        new_employee_id == Strip(employee_id)
        saved == [row EXCEPT
                    !.EmployeeID = IF new_employee_id # AsStr(row.EmployeeID)
                                   THEN new_employee_id ELSE @,
                    !.Name = Strip(name),
                    !.Extension = Strip(extension),
                    !.Department = Strip(department),
                    !.Status = status,
                    !.LastUpdated = now]
    IN
    /\ idx # 0
    /\ department \in {Blank} \cup Range(dept_options)
    /\ IF Strip(name) = Blank
       THEN /\ last' = Did("update_emp", "no_name", FALSE)
            /\ UNCHANGED <<df_emp, file>>
       ELSE IF Strip(extension) = Blank
       THEN /\ last' = Did("update_emp", "no_extension", FALSE)
            /\ UNCHANGED <<df_emp, file>>
       ELSE IF EditIsDuplicate(new_employee_id, row, df_emp)
       THEN /\ last' = Did("update_emp", "duplicate", FALSE)
            /\ UNCHANGED <<df_emp, file>>
       ELSE /\ df_emp' = [df_emp EXCEPT ![idx] = saved]
            /\ file' = write_workbook(df_emp', df_dept)
            /\ last' = Did("update_emp", "ok", TRUE)
    /\ UNCHANGED <<df_dept, assigned>>
    /\ RestOfRun

\* "Delete User" of the edit form opened on Row ID edit_id (lines 722-729).
DeleteEmployee(edit_id) ==
    LET idx == FirstIndex({i \in 1..Len(df_emp) : df_emp[i].RowID = edit_id})
    IN
    /\ idx # 0
    /\ df_emp' = DropAt(df_emp, idx)
    /\ file' = write_workbook(df_emp', df_dept)
    /\ last' = Did("delete_emp", "ok", TRUE)
    /\ UNCHANGED <<df_dept, assigned>>
    /\ RestOfRun

----------------------------------------------------------------------------
(* Bulk import (lines 1046-1529).                                          *)

\* The target fields a file column can be mapped to (line 1092), of the
\* columns modelled.
SystemColumns == {"EmployeeID", "Name", "Extension", "Department", "Status"}

\* Lines 1275-1301: the mapped cells of one file row, stripped; then the
\* defaults, which override; then the department actions; every column
\* still missing is filled with "".
BulkNewEmp(row, mapping, defaults, bulk_dept_actions) ==
    LET mapped == [c \in SystemColumns |->
                     IF c \in mapping
                     THEN (IF IsNa(row[c]) THEN Blank ELSE Strip(AsStr(row[c])))
                     ELSE Blank]
        withdef == [c \in SystemColumns |->
                     IF c \in DOMAIN defaults THEN defaults[c] ELSE mapped[c]]
        dept_name == withdef["Department"]
        dept == IF dept_name \in DOMAIN bulk_dept_actions
                THEN CASE bulk_dept_actions[dept_name].action = "map"
                            -> bulk_dept_actions[dept_name].target
                       [] bulk_dept_actions[dept_name].action = "skip" -> Blank
                       [] OTHER -> dept_name
                ELSE dept_name
    IN  [withdef EXCEPT !["Department"] = dept]

\* The classification without the two tracking sets being added to.
BulkSort_untracked(acc, rec, emp_id, extension) ==
    IF Strip(rec.row.Name) = Blank \/ extension = Blank
    THEN [acc EXCEPT !.error_records = Append(@, rec)]
    ELSE IF \/ emp_id # Blank /\ emp_id \in acc.existing_emp_ids
            \/ extension # Blank /\ extension \in acc.existing_extensions
    THEN [acc EXCEPT !.duplicate_records = Append(@, rec)]
    ELSE [acc EXCEPT !.preview_data = Append(@, rec)]

\* Lines 1303-1336 for one file row: rec is its preview record, with the
\* Row ID of line 1271.
BulkSort(acc, rec, emp_id, extension) ==
    IF Strip(rec.row.Name) = Blank \/ extension = Blank
    THEN [acc EXCEPT !.error_records = Append(@, rec)]
    ELSE IF \/ emp_id # Blank /\ emp_id \in acc.existing_emp_ids
            \/ extension # Blank /\ extension \in acc.existing_extensions
    THEN [acc EXCEPT !.duplicate_records = Append(@, rec)]
    ELSE [acc EXCEPT
            !.preview_data = Append(@, rec),
            !.existing_emp_ids = IF emp_id # Blank THEN @ \cup {emp_id} ELSE @,
            !.existing_extensions =
                IF extension # Blank THEN @ \cup {extension} ELSE @]

\* Line 1270-1273: the preview record of file row k.
BulkRecord(acc, k, e, next_id) ==
    [FileRow |-> k + 1,
     row |-> EmpRow(next_id + Len(acc.preview_data) + Len(acc.duplicate_records),
                    e["EmployeeID"], e["Name"], e["Extension"],
                    e["Department"], e["Status"], now)]

BulkRow(acc, k, e, next_id) ==
    BulkSort(acc, BulkRecord(acc, k, e, next_id),
             Strip(e["EmployeeID"]), Strip(e["Extension"]))

\* Lines 1261-1336: the preview loop over the file rows.  acc carries
\* preview_data, duplicate_records, error_records and the two tracking sets.
RECURSIVE BulkPreview(_, _, _, _, _, _)
BulkPreview(rows, k, mapping, defaults, bulk_dept_actions, acc) ==
    IF k > Len(rows) THEN acc
    ELSE BulkPreview(rows, k + 1, mapping, defaults, bulk_dept_actions,
            BulkRow(acc, k,
                    BulkNewEmp(rows[k], mapping, defaults, bulk_dept_actions),
                    next_row_id(df_emp)))

BulkClassify(rows, mapping, defaults, bulk_dept_actions) ==
    BulkPreview(rows, 1, mapping, defaults, bulk_dept_actions,
        [preview_data |-> <<>>, duplicate_records |-> <<>>,
         error_records |-> <<>>,
         existing_emp_ids |-> EmployeeIdStrs(df_emp),
         existing_extensions |->
             {AsStr(df_emp[i].Extension) : i \in 1..Len(df_emp)}])

\* Lines 1437-1449: one department is created for every "create" action
\* whose name is not yet a Department Name, in the order of the dict.
RECURSIVE BulkCreateDepts(_, _, _)
BulkCreateDepts(names, bulk_dept_actions, dept) ==
    IF names = <<>> THEN dept
    ELSE
    LET dept_name == Head(names)
        exists == \E i \in 1..Len(dept) : dept[i].DepartmentName = dept_name
        dept2 == IF bulk_dept_actions[dept_name].action = "create" /\ ~exists
                 THEN Append(dept, DeptRow(next_dept_id(dept), dept_name,
                                     bulk_dept_actions[dept_name].description))
                 ELSE dept
    IN  BulkCreateDepts(Tail(names), bulk_dept_actions, dept2)

\* Lines 1468-1488: the row a "Replace Existing" duplicate overwrites: the
\* first with its Employee ID when it has one, else the first with its
\* Extension; 0 when there is none.
BulkReplaceIndex(emp, r) ==
    LET emp_id == Strip(r.EmployeeID)
        extension == Strip(r.Extension)
    IN  IF emp_id # Blank
        THEN FirstIndex({i \in 1..Len(emp) :
                            AsStr(emp[i].EmployeeID) = emp_id})
        ELSE IF extension # Blank
        THEN FirstIndex({i \in 1..Len(emp) :
                            AsStr(emp[i].Extension) = extension})
        ELSE 0

\* Lines 1457-1488: the duplicate records, each by its two checkboxes.
RECURSIVE BulkApplyDuplicates(_, _, _)
BulkApplyDuplicates(dups, bulk_selections, emp) ==
    IF dups = <<>> THEN emp
    ELSE
    LET d == Head(dups)
        sel == bulk_selections[d.FileRow]
        idx == BulkReplaceIndex(emp, d.row)
        emp2 ==
            IF sel.import /\ ~sel.replace THEN Append(emp, d.row)
            ELSE IF sel.replace /\ ~sel.import /\ idx # 0
            THEN [emp EXCEPT ![idx] = [d.row EXCEPT !.RowID = emp[idx].RowID,
                                                    !.LastUpdated = now]]
            ELSE emp
    IN  BulkApplyDuplicates(Tail(dups), bulk_selections, emp2)

\* The rows of a sequence of preview records.
RowsOf(recs) == [i \in 1..Len(recs) |-> recs[i].row]

\* Line 1411-1413: the duplicates with exactly one checkbox ticked.
SelectedDuplicates(dups, bulk_selections) ==
    Cardinality({i \in 1..Len(dups) :
        bulk_selections[dups[i].FileRow].import
            # bulk_selections[dups[i].FileRow].replace})

\* The file rows of the duplicate records: the keys of bulk_selections.
DuplicateFileRows(c) ==
    {c.duplicate_records[i].FileRow : i \in 1..Len(c.duplicate_records)}

\* What a bulk-import commit did: imported_count of the success message,
\* the "Selected Duplicates" and "Will Skip" metrics (lines 1411-1422) and
\* the number of error records.
DidBulk(c, bulk_selections, ids) ==
    [op |-> "bulk_import", res |-> "ok", wrote |-> TRUE, ids |-> ids,
     reused |-> ids \cap assigned,
     imported_count |->
         Len(c.preview_data)
           + Cardinality({i \in 1..Len(c.duplicate_records) :
                LET sel == bulk_selections[c.duplicate_records[i].FileRow]
                IN  sel.import /\ ~sel.replace}),
     selected_duplicates |->
         SelectedDuplicates(c.duplicate_records, bulk_selections),
     will_skip |->
         Len(c.error_records) + Len(c.duplicate_records)
           - SelectedDuplicates(c.duplicate_records, bulk_selections),
     errors |-> Len(c.error_records)]

\* "Import Selected Records" (lines 1432-1508) on the preview c.
BulkCommit(c, bulk_dept_actions, bulk_selections) ==
    /\ Len(c.preview_data)
         + SelectedDuplicates(c.duplicate_records, bulk_selections) > 0
    /\ df_dept' = BulkCreateDepts(Sorted(DOMAIN bulk_dept_actions),
                                  bulk_dept_actions, df_dept)
    /\ \A i \in 1..Len(df_dept') : df_dept'[i].DeptID <= MaxDeptId
    /\ df_emp' = BulkApplyDuplicates(c.duplicate_records, bulk_selections,
                                     df_emp \o RowsOf(c.preview_data))
    /\ Len(df_emp') <= MaxEmp
    /\ \A i \in 1..Len(df_emp') : df_emp'[i].RowID <= MaxRowId
    /\ file' = write_workbook(df_emp', df_dept')
    /\ assigned' = assigned \cup {df_emp'[i].RowID :
                                    i \in (Len(df_emp) + 1)..Len(df_emp')}
    /\ last' = DidBulk(c, bulk_selections,
                       {df_emp'[i].RowID : i \in (Len(df_emp) + 1)..Len(df_emp')})
    /\ RestOfRun

BulkChoose(c, bulk_dept_actions) ==
    \E bulk_selections \in [DuplicateFileRows(c) -> [import : BOOLEAN,
                                                     replace : BOOLEAN]] :
        BulkCommit(c, bulk_dept_actions, bulk_selections)

\* The bulk upload run in which "Import Selected Records" is pressed, on the
\* uploaded rows, with the column mapping, the defaults and the department
\* actions of the session; the duplicate checkboxes are the operator's.
BulkImport(rows, mapping, defaults, bulk_dept_actions) ==
    BulkChoose(BulkClassify(rows, mapping, defaults, bulk_dept_actions),
               bulk_dept_actions)

----------------------------------------------------------------------------
(* Session start (lines 229-237) and the employee specification.           *)

\* Lines 1168-1184: the department values of the upload that are no
\* Department Name of the session table.
BulkMissingDepartments(rows, mapping, defaults) ==
    LET value(r) == IF "Department" \in DOMAIN defaults
                    THEN defaults["Department"]
                    ELSE IF "Department" \in mapping /\ ~IsNa(r["Department"])
                    THEN r["Department"] ELSE Blank
        import_departments ==
            {Strip(AsStr(value(rows[i]))) : i \in 1..Len(rows)} \ {Blank}
        existing_dept_names ==
            {Strip(AsStr(df_dept[i].DepartmentName)) : i \in 1..Len(df_dept)}
    IN  import_departments \ existing_dept_names

\* The state after the first script run on workbook f: the tables are read
\* and, when there are employees, saved back with their Row IDs.
SessionStart(f) ==
    /\ df_emp = read_workbook(f).emp
    /\ df_dept = read_workbook(f).dept
    /\ file = IF df_emp # <<>> THEN write_workbook(df_emp, df_dept) ELSE f
    /\ sync_dept_actions = <<>>
    /\ show_dept_sync = FALSE
    /\ sync_widgets = NoFunction
    /\ dept_manage_actions = <<>>
    /\ show_dept_manage = FALSE
    /\ manage_widgets = NoFunction
    /\ now = 1
    /\ tmp = NoSave
    /\ assigned = RowIds(df_emp)
    /\ last = Did("start", "ok", df_emp # <<>>)

\* Sequences of length 0..n over S.
SeqUpTo(S, n) == UNION {[1..k -> S] : k \in 0..n}

\* What the operator can type as an Employee ID, a Name, an Extension.
EmpIdInputs == {Blank, <<"a">>, <<"a", " ">>}
NameInputs == {Blank, <<"n">>}
ExtInputs == {Blank, <<"1">>, <<"2">>}

\* Workbooks the employee specification starts from: no workbook yet (the
\* portal creates an empty one), or a workbook prepared by hand whose rows
\* may lack a Row ID.  Row IDs present and Employee IDs present are unique.
EmpWorkbooks ==
    LET rowset == {EmpRow(rid, eid, <<"n">>, <<"1">>, Blank, Active, NoStamp) :
                      rid \in {NoRowId, 1, 2}, eid \in {Blank, <<"a">>}}
        ok(e) == \A i, j \in 1..Len(e) :
                    i # j => /\ (e[i].RowID # NoRowId => e[i].RowID # e[j].RowID)
                             /\ (e[i].EmployeeID # Blank
                                    => e[i].EmployeeID # e[j].EmployeeID)
    IN  {[emp |-> e, dept |-> <<>>] : e \in {x \in SeqUpTo(rowset, 2) : ok(x)}}

InitEmp == \E f \in EmpWorkbooks : SessionStart(f)

\* The files the employee specification uploads: every column mapped, no
\* default, no department; one kind of row lacks its Name.
EmpBulkRows ==
    {[EmployeeID |-> eid, Name |-> <<"n">>, Extension |-> ext,
      Department |-> Blank, Status |-> Active] :
        eid \in {Blank, <<"a">>}, ext \in {<<"1">>, <<"2">>}}
    \cup {[EmployeeID |-> Blank, Name |-> Blank, Extension |-> <<"2">>,
           Department |-> Blank, Status |-> Active]}

EmpBatches == SeqUpTo(EmpBulkRows, MaxBatch) \ {<<>>}

NextEmp ==
    \/ ReloadFromExcel
    \/ \E eid \in EmpIdInputs, name \in NameInputs, ext \in ExtInputs :
          AddEmployee(eid, name, ext, Blank, Active)
    \/ \E rid \in RowIds(df_emp), eid \in EmpIdInputs, name \in NameInputs,
          ext \in ExtInputs :
          UpdateEmployee(rid, eid, name, ext, Blank, Active)
    \/ \E rid \in RowIds(df_emp) : DeleteEmployee(rid)
    \/ \E rows \in EmpBatches :
          BulkImport(rows, SystemColumns, NoFunction, NoFunction)

SpecEmp == InitEmp /\ [][NextEmp]_vars

----------------------------------------------------------------------------
(* Departments: Add Department and the Edit / Delete Department form.      *)

\* The existing names as they are, without str.lower().
LowerNames_exact(dept) == {AsStr(dept[i].DepartmentName) : i \in 1..Len(dept)}

\* Line 879: df_dept["Department Name"].str.lower().values
LowerNames(dept) == {Lower(AsStr(dept[i].DepartmentName)) : i \in 1..Len(dept)}

\* Submitting the Add Department form (lines 876-886).
AddDepartment(dname, ddesc) ==
    /\ IF Strip(dname) = Blank
       THEN /\ last' = Did("add_dept", "no_name", FALSE)
            /\ UNCHANGED <<df_dept, file>>
       ELSE IF Lower(Strip(dname)) \in LowerNames(df_dept)
       THEN /\ last' = Did("add_dept", "duplicate", FALSE)
            /\ UNCHANGED <<df_dept, file>>
       ELSE /\ next_dept_id(df_dept) <= MaxDeptId
            /\ df_dept' = Append(df_dept, DeptRow(next_dept_id(df_dept),
                                                  Strip(dname), Strip(ddesc)))
            /\ file' = write_workbook(df_emp, df_dept')
            /\ last' = Did("add_dept", "ok", TRUE)
    /\ UNCHANGED <<df_emp, assigned>>
    /\ RestOfRun

\* Line 981 and line 1001: the employees whose Department is the text from
\* get the text to.
SetDepartmentWhereEqual(emp, from, to) ==
    [i \in 1..Len(emp) |->
        IF emp[i].Department = from THEN [emp[i] EXCEPT !.Department = to]
        ELSE emp[i]]

\* "Save" of the Edit Department form opened on row idx (lines 968-990).
EditDepartmentSave(idx, dn, dd) ==
    LET old_dept_name == df_dept[idx].DepartmentName
    IN
    /\ idx \in 1..Len(df_dept)
    /\ IF Strip(dn) = Blank
       THEN /\ last' = Did("edit_dept", "no_name", FALSE)
            /\ UNCHANGED <<df_emp, df_dept, file>>
       ELSE IF /\ Lower(Strip(dn)) # Lower(old_dept_name)
               /\ Lower(Strip(dn)) \in LowerNames(df_dept)
       THEN /\ last' = Did("edit_dept", "duplicate", FALSE)
            /\ UNCHANGED <<df_emp, df_dept, file>>
       ELSE /\ df_dept' = [df_dept EXCEPT ![idx].DepartmentName = Strip(dn),
                                          ![idx].Description = Strip(dd)]
            /\ df_emp' = IF old_dept_name # Strip(dn)
                         THEN SetDepartmentWhereEqual(df_emp, old_dept_name,
                                                      Strip(dn))
                         ELSE df_emp
            /\ file' = write_workbook(df_emp', df_dept')
            /\ last' = Did("edit_dept", "ok", TRUE)
    /\ UNCHANGED assigned
    /\ RestOfRun

\* "Delete" of the Edit Department form opened on row idx (lines 992-1006).
EditDepartmentDelete(idx) ==
    /\ idx \in 1..Len(df_dept)
    /\ df_dept' = DropAt(df_dept, idx)
    /\ df_emp' = SetDepartmentWhereEqual(df_emp, df_dept[idx].DepartmentName,
                                         Blank)
    /\ file' = write_workbook(df_emp', df_dept')
    /\ last' = Did("delete_dept", "ok", TRUE)
    /\ UNCHANGED assigned
    /\ RestOfRun

----------------------------------------------------------------------------
(* The buttons of the Sync Departments panel.                              *)

\* The sidebar button "Sync Departments" (lines 324-326).
SyncOpen ==
    /\ ~show_dept_sync
    /\ show_dept_sync' = TRUE
    /\ last' = Did("sync_open", "ok", FALSE)
    /\ UNCHANGED <<df_emp, df_dept, file, show_dept_manage, now, assigned>>
    /\ PanelsDrawn(sync_dept_actions, sync_widgets,
                   dept_manage_actions, manage_widgets)

\* The operator sets the widgets of one orphaned name to w.
SyncChoose(dept_name, w) ==
    /\ show_dept_sync
    /\ dept_name \in DOMAIN sync_widgets
    /\ w # sync_widgets[dept_name]
    /\ last' = Did("sync_choose", "ok", FALSE)
    /\ UNCHANGED <<df_emp, df_dept, file, show_dept_sync, show_dept_manage,
                   now, assigned>>
    /\ PanelsDrawn(sync_dept_actions,
                   [sync_widgets EXCEPT ![dept_name] = w],
                   dept_manage_actions, manage_widgets)

\* Employees whose stripped department is one of the texts from get to, and
\* the time (lines 1783-1785, 1809-1814, 1822-1824, 1829-1831, 2100-2102).
SetDepartmentWhereStripped(emp, from, to) ==
    [i \in 1..Len(emp) |->
        IF Strip(AsStr(emp[i].Department)) \in from
        THEN [emp[i] EXCEPT !.Department = to, !.LastUpdated = now]
        ELSE emp[i]]

\* f"Merged from: {a}, {b}" (lines 1804 and 2128).
MergedDescription(a, b) == <<"Merged from: ">> \o a \o <<", ">> \o b

\* Lines 1768-1832: the loop over sync_dept_actions.items().
RECURSIVE SyncApplyActions(_, _, _, _)
SyncApplyActions(acts, emp, dept, processed_merges) ==
    IF acts = <<>> THEN [emp |-> emp, dept |-> dept]
    ELSE
    LET dept_name == Head(acts).key
        action == Head(acts).action
    IN
    CASE action.action = "create" ->
            LET final_name == IF "new_name" \in DOMAIN action
                              THEN action.new_name ELSE dept_name
            IN  SyncApplyActions(Tail(acts),
                    IF final_name # dept_name
                    THEN SetDepartmentWhereStripped(emp, {dept_name}, final_name)
                    ELSE emp,
                    Append(dept, DeptRow(next_dept_id(dept), final_name,
                                         action.description)),
                    processed_merges)
      [] action.action = "merge" ->
            LET merge_key == {dept_name, action.merge_target}
            IN  IF merge_key \in processed_merges
                THEN SyncApplyActions(Tail(acts), emp, dept, processed_merges)
                ELSE SyncApplyActions(Tail(acts),
                        SetDepartmentWhereStripped(
                            emp, {dept_name, action.merge_target},
                            action.merged_name),
                        Append(dept, DeptRow(next_dept_id(dept),
                                             action.merged_name,
                                             MergedDescription(
                                                 dept_name,
                                                 action.merge_target))),
                        processed_merges \cup {merge_key})
      [] action.action = "map" ->
            SyncApplyActions(Tail(acts),
                SetDepartmentWhereStripped(emp, {dept_name}, action.target),
                dept, processed_merges)
      [] action.action = "remove" ->
            SyncApplyActions(Tail(acts),
                SetDepartmentWhereStripped(emp, {dept_name}, Blank),
                dept, processed_merges)

\* Lines 1748-1754: the orphaned names the gate of "Apply Changes" finds
\* without an entry, or with a map entry that has no target.
SyncIncomplete(actions, f) ==
    {n \in MissingDepts(f) :
        \/ n \notin Keys(actions)
        \/ /\ DictGet(actions, n).action = "map"
           /\ "target" \notin DOMAIN DictGet(actions, n)}

SyncCommit(result) ==
    /\ \A i \in 1..Len(result.dept) : result.dept[i].DeptID <= MaxDeptId
    /\ df_emp' = result.emp
    /\ df_dept' = result.dept
    /\ file' = write_workbook(df_emp', df_dept')
    /\ show_dept_sync' = FALSE
    /\ last' = Did("sync_apply", "ok", TRUE)
    /\ UNCHANGED show_dept_manage
    /\ PanelsDrawn(<<>>, NoFunction, dept_manage_actions, manage_widgets)

\* "Apply Changes" of the sync panel (lines 1746-1856).
SyncApply ==
    /\ show_dept_sync
    /\ MissingDepts(file) # {}
    /\ IF SyncIncomplete(sync_dept_actions, file) # {}
       THEN /\ last' = Did("sync_apply", "incomplete", FALSE)
            /\ UNCHANGED <<df_emp, df_dept, file, sync_dept_actions,
                           show_dept_sync, sync_widgets, dept_manage_actions,
                           show_dept_manage, manage_widgets, tmp>>
       ELSE SyncCommit(SyncApplyActions(sync_dept_actions, df_emp, df_dept, {}))
    /\ UNCHANGED <<now, assigned>>

\* Lines 1860-1864, over the names in sorted order.
RECURSIVE SyncCreateAll(_, _)
SyncCreateAll(names, actions) ==
    IF names = <<>> THEN actions
    ELSE SyncCreateAll(Tail(names),
            DictPut(actions, Head(names),
                    [action |-> "create", description |-> SyncedDescription]))

\* "Select All -> Create New" (lines 1859-1865).
SyncSelectAll ==
    /\ show_dept_sync
    /\ MissingDepts(file) # {}
    /\ last' = Did("sync_select_all", "ok", FALSE)
    /\ UNCHANGED <<df_emp, df_dept, file, show_dept_sync, show_dept_manage,
                   now, assigned>>
    /\ PanelsDrawn(SyncCreateAll(Sorted(MissingDepts(file)), sync_dept_actions),
                   sync_widgets, dept_manage_actions, manage_widgets)

\* "Cancel Sync" (lines 1868-1871).
SyncCancel ==
    /\ show_dept_sync
    /\ MissingDepts(file) # {}
    /\ show_dept_sync' = FALSE
    /\ last' = Did("sync_cancel", "ok", FALSE)
    /\ UNCHANGED <<df_emp, df_dept, file, show_dept_manage, now, assigned>>
    /\ PanelsDrawn(<<>>, NoFunction, dept_manage_actions, manage_widgets)

\* "Back to Main View" of the sync panel (lines 1886-1888), shown when no
\* name is orphaned: the entries recorded stay.
SyncBack ==
    /\ show_dept_sync
    /\ MissingDepts(file) = {}
    /\ show_dept_sync' = FALSE
    /\ last' = Did("sync_back", "ok", FALSE)
    /\ UNCHANGED <<df_emp, df_dept, file, show_dept_manage, now, assigned>>
    /\ PanelsDrawn(sync_dept_actions, NoFunction,
                   dept_manage_actions, manage_widgets)

----------------------------------------------------------------------------
(* The buttons of the Manage Departments panel.                            *)

\* The sidebar button "Manage Departments" (lines 328-330).
ManageOpen ==
    /\ ~show_dept_manage
    /\ show_dept_manage' = TRUE
    /\ last' = Did("manage_open", "ok", FALSE)
    /\ UNCHANGED <<df_emp, df_dept, file, show_dept_sync, now, assigned>>
    /\ PanelsDrawn(sync_dept_actions, sync_widgets,
                   dept_manage_actions, manage_widgets)

\* The operator sets the widgets of one department to w.
ManageChoose(dept_id, w) ==
    /\ show_dept_manage
    /\ dept_id \in DOMAIN manage_widgets
    /\ w # manage_widgets[dept_id]
    /\ last' = Did("manage_choose", "ok", FALSE)
    /\ UNCHANGED <<df_emp, df_dept, file, show_dept_sync, show_dept_manage,
                   now, assigned>>
    /\ PanelsDrawn(sync_dept_actions, sync_widgets, dept_manage_actions,
                   [manage_widgets EXCEPT ![dept_id] = w])

\* df_dept[df_dept["Dept ID"] != dept_id]
WithoutDept(dept, dept_id) == SelectSeq(dept, LAMBDA d : d.DeptID # dept_id)

\* Lines 2089-2145: the loop over dept_manage_actions.items().
RECURSIVE ManageApplyActions(_, _, _)
ManageApplyActions(acts, emp, dept) ==
    IF acts = <<>> THEN [emp |-> emp, dept |-> dept]
    ELSE
    LET dept_id == Head(acts).key
        action_data == Head(acts).action
    IN
    CASE action_data.action = "rename" ->
            ManageApplyActions(Tail(acts),
                SetDepartmentWhereStripped(emp, {action_data.old_name},
                                           action_data.new_name),
                [i \in 1..Len(dept) |->
                    IF dept[i].DeptID = dept_id
                    THEN [dept[i] EXCEPT
                            !.DepartmentName = action_data.new_name,
                            !.Description = IF action_data.new_desc # Blank
                                            THEN action_data.new_desc ELSE @]
                    ELSE dept[i]])
      [] action_data.action = "merge" ->
            ManageApplyActions(Tail(acts),
                SetDepartmentWhereStripped(emp, {action_data.old_name},
                                           action_data.target),
                WithoutDept(dept, dept_id))
      [] action_data.action = "merge_two" ->
            LET keep_id == IF action_data.delete_id = action_data.dept2_id
                           THEN action_data.dept1_id ELSE action_data.dept2_id
                renamed == [i \in 1..Len(dept) |->
                    IF dept[i].DeptID = keep_id
                    THEN [dept[i] EXCEPT
                            !.DepartmentName = action_data.final_name,
                            !.Description = MergedDescription(
                                action_data.dept1_name, action_data.dept2_name)]
                    ELSE dept[i]]
            IN  ManageApplyActions(Tail(acts),
                    SetDepartmentWhereStripped(
                        emp, {action_data.dept1_name, action_data.dept2_name},
                        action_data.final_name),
                    WithoutDept(renamed, action_data.delete_id))
      [] action_data.action = "delete" ->
            ManageApplyActions(Tail(acts), emp, WithoutDept(dept, dept_id))

ManageCommit(result) ==
    /\ df_emp' = result.emp
    /\ df_dept' = result.dept
    /\ file' = write_workbook(df_emp', df_dept')
    /\ show_dept_manage' = FALSE
    /\ last' = Did("manage_apply", "ok", TRUE)
    /\ UNCHANGED show_dept_sync
    /\ PanelsDrawn(sync_dept_actions, sync_widgets, <<>>, NoFunction)

\* "Apply Changes" of the manage panel (lines 2081-2165).
ManageApply ==
    /\ show_dept_manage
    /\ read_workbook(file).dept # <<>>
    /\ IF dept_manage_actions = <<>>
       THEN /\ last' = Did("manage_apply", "nothing", FALSE)
            /\ UNCHANGED <<df_emp, df_dept, file, sync_dept_actions,
                           show_dept_sync, sync_widgets, dept_manage_actions,
                           show_dept_manage, manage_widgets, tmp>>
       ELSE ManageCommit(ManageApplyActions(dept_manage_actions, df_emp,
                                            df_dept))
    /\ UNCHANGED <<now, assigned>>

\* "Cancel" of the manage panel (lines 2168-2171).
ManageCancel ==
    /\ show_dept_manage
    /\ read_workbook(file).dept # <<>>
    /\ show_dept_manage' = FALSE
    /\ last' = Did("manage_cancel", "ok", FALSE)
    /\ UNCHANGED <<df_emp, df_dept, file, show_dept_sync, now, assigned>>
    /\ PanelsDrawn(sync_dept_actions, sync_widgets, <<>>, NoFunction)

\* "Back to Main View" of the manage panel (lines 2179-2181): the entries
\* recorded stay.
ManageBack ==
    /\ show_dept_manage
    /\ show_dept_manage' = FALSE
    /\ last' = Did("manage_back", "ok", FALSE)
    /\ UNCHANGED <<df_emp, df_dept, file, show_dept_sync, now, assigned>>
    /\ PanelsDrawn(sync_dept_actions, sync_widgets,
                   dept_manage_actions, NoFunction)

----------------------------------------------------------------------------
(* The department specifications: the forms, the sync panel, the manage    *)
(* panel.  Each starts from workbooks whose Department Names differ        *)
(* ignoring case and whose employees are numbered; the Department cell of  *)
(* an employee is free text.                                               *)

\* What the operator can type as a department name.
DeptNameInputs == {<<"A">>, <<"a">>, <<"B">>}

\* An employee row of a workbook with Row ID i and Department text d.
StartEmp(i, d) == EmpRow(i, Blank, <<"n">>, <<"1">>, d, Active, NoStamp)

\* One employee, or two, with Department texts from the set texts.
OneEmp(texts) == {<<StartEmp(1, x)>> : x \in texts}

TwoEmps(texts) == {<<StartEmp(1, x), StartEmp(2, y)>> : x \in texts, y \in texts}

\* The forms: department "A" or none; the employee's Department is empty,
\* "A", or "A" followed by a space.
FormWorkbooks ==
    {[emp |-> e, dept |-> d] :
        e \in OneEmp({Blank, <<"A">>, <<"A", " ">>}),
        d \in {<<>>, <<DeptRow(1, <<"A">>, Blank)>>}}

InitForms == \E f \in FormWorkbooks : SessionStart(f)

\* The files the forms specification uploads: one employee with a
\* department, every column mapped, no default.
DeptBatches ==
    {<<[EmployeeID |-> Blank, Name |-> <<"n">>, Extension |-> <<"3">>,
        Department |-> d, Status |-> Active]>> : d \in {<<"a">>, <<"B">>}}

\* Lines 1196-1235: the widgets of one missing department in the run that
\* commits: the radio, the "Select existing department" box (its first
\* option is ""), and what an earlier run of Step 4 left in
\* bulk_dept_actions for the name.  The radio starts on "Create New", so the
\* first run records a create with no description; the operator may have
\* passed through "Skip" as well.
Step4Left == {[action |-> "create", description |-> Blank], [action |-> "skip"]}

Step4Widgets ==
    LET existing_dept_names ==
            {Strip(AsStr(df_dept[i].DepartmentName)) : i \in 1..Len(df_dept)}
    IN  {[radio |-> "Create New", map |-> Blank, left |-> l] : l \in Step4Left}
        \cup {[radio |-> "Skip (Leave Blank)", map |-> Blank, left |-> l] :
                l \in Step4Left}
        \cup {[radio |-> "Map to Existing", map |-> t, left |-> l] :
                t \in {Blank} \cup existing_dept_names, l \in Step4Left}

\* Lines 1203-1235: the entry of bulk_dept_actions after the run drew the
\* widgets w: "Map to Existing" with no department selected assigns
\* nothing, and the entry of the earlier run stays.
Step4Record(w) ==
    CASE w.radio = "Create New" -> [action |-> "create", description |-> Blank]
      [] w.radio = "Map to Existing" /\ w.map # Blank
            -> [action |-> "map", target |-> w.map]
      [] w.radio = "Map to Existing" /\ w.map = Blank -> w.left
      [] OTHER -> [action |-> "skip"]

\* Lines 1186-1248: what Step 4 can record for the missing departments.
BulkDeptChoices(rows) ==
    [BulkMissingDepartments(rows, SystemColumns, NoFunction) -> Step4Widgets]

\* The bulk upload run that commits with the Step 4 widgets in the states
\* widgets (lines 1165-1508); missing_depts_handled is set by line 1245 or
\* 1248 whatever the widgets show, so Step 5 is always drawn.
BulkImportStep4(rows, widgets) ==
    BulkImport(rows, SystemColumns, NoFunction,
               [d \in DOMAIN widgets |-> Step4Record(widgets[d])])

NextForms ==
    \/ ReloadFromExcel
    \/ \E rid \in RowIds(df_emp), d \in {Blank} \cup Range(dept_options) :
          UpdateEmployee(rid, Blank, <<"n">>, <<"1">>, d, Active)
    \/ \E rows \in DeptBatches : \E widgets \in BulkDeptChoices(rows) :
          BulkImportStep4(rows, widgets)
    \/ \E dname \in DeptNameInputs \cup {Blank} : AddDepartment(dname, Blank)
    \/ \E idx \in 1..Len(df_dept), dn \in DeptNameInputs \cup {Blank} :
          EditDepartmentSave(idx, dn, Blank)
    \/ \E idx \in 1..Len(df_dept) : EditDepartmentDelete(idx)

SpecForms == InitForms /\ [][NextForms]_vars

\* The sync panel: department "C" or none; an employee's Department is
\* empty, "A", "B", or "A" followed by a space.
SyncWorkbooks ==
    {[emp |-> e, dept |-> d] :
        e \in OneEmp({<<"A">>, <<"A", " ">>})
                \cup TwoEmps({Blank, <<"A">>, <<"B">>}),
        d \in {<<>>, <<DeptRow(1, <<"C">>, Blank)>>}}

InitSync == \E f \in SyncWorkbooks : SessionStart(f)

\* The settings the operator can give the widgets of one orphaned name.
SyncChoices(dept_name) ==
    LET others == MissingDepts(file) \ {dept_name}
    IN  {[action |-> "create", rename |-> FALSE], [action |-> "remove"]}
        \cup {[action |-> "create", rename |-> TRUE, new_name |-> m] :
                m \in {<<"a">>, <<"c">>}}
        \cup {[action |-> "merge", merge_target |-> t, custom |-> FALSE] :
                t \in {Blank} \cup others}
        \cup {[action |-> "merge", merge_target |-> t, custom |-> TRUE,
               merged_name |-> <<"a">>] : t \in others}
        \cup {[action |-> "map", target |-> t] :
                t \in {Blank} \cup ExistingDepts(file)}

NextSync ==
    \/ ReloadFromExcel
    \/ \E dname \in {<<"A">>, <<"B">>} : AddDepartment(dname, Blank)
    \/ SyncOpen
    \/ \E n \in DOMAIN sync_widgets : \E w \in SyncChoices(n) : SyncChoose(n, w)
    \/ SyncApply
    \/ SyncSelectAll
    \/ SyncCancel
    \/ SyncBack

SpecSync == InitSync /\ [][NextSync]_vars

\* The sync panel with the department forms of the main view, which stay
\* in reach while the panel is open: department "C", one employee of "A".
SyncFormsWorkbooks ==
    {[emp |-> e, dept |-> <<DeptRow(1, <<"C">>, Blank)>>] :
        e \in OneEmp({<<"A">>})}

InitSyncForms == \E f \in SyncFormsWorkbooks : SessionStart(f)

NextSyncForms ==
    \/ AddDepartment(<<"A">>, Blank)
    \/ \E idx \in 1..Len(df_dept) : EditDepartmentDelete(idx)
    \/ SyncOpen
    \/ \E n \in DOMAIN sync_widgets : \E w \in SyncChoices(n) : SyncChoose(n, w)
    \/ SyncApply
    \/ SyncCancel
    \/ SyncBack

SpecSyncForms == InitSyncForms /\ [][NextSyncForms]_vars

\* The manage panel: departments "A" and "C"; the employee's Department is
\* empty, "A", or "A" followed by a space.
ManageWorkbooks ==
    {[emp |-> e,
      dept |-> <<DeptRow(1, <<"A">>, Blank), DeptRow(2, <<"C">>, Blank)>>] :
        e \in OneEmp({Blank, <<"A">>, <<"A", " ">>})}

InitManage == \E f \in ManageWorkbooks : SessionStart(f)

\* The settings the operator can give the widgets of one department.
ManageChoices(dept_id) ==
    LET others == OtherDepts(read_workbook(file).dept, dept_id)
    IN  {[action |-> "nochange"]}
        \cup {[action |-> "rename", new_name |-> <<"B">>]}
        \cup {[action |-> "merge", merge_target |-> Blank,
               merge_mode |-> "keep1", final_name |-> Blank]}
        \cup {[action |-> "merge", merge_target |-> t, merge_mode |-> m,
               final_name |-> Blank] : t \in others, m \in {"keep1", "keep2"}}
        \cup {[action |-> "delete", confirm |-> c] : c \in BOOLEAN}

NextManage ==
    \/ \E rid \in RowIds(df_emp), d \in {Blank} \cup Range(dept_options) :
          UpdateEmployee(rid, Blank, <<"n">>, <<"1">>, d, Active)
    \/ ManageOpen
    \/ \E id \in DOMAIN manage_widgets : \E w \in ManageChoices(id) :
          ManageChoose(id, w)
    \/ ManageApply
    \/ ManageCancel
    \/ ManageBack

SpecManage == InitManage /\ [][NextManage]_vars

----------------------------------------------------------------------------
(* "Activate All Inactive" (lines 298-307) and the status specification.   *)

\* Line 302: the rows the second assignment stamps are those whose Status is
\* "Active" once the first assignment has been made.
ActivateStamped(emp) == {i \in 1..Len(emp) : emp[i].Status = Active}

ActivateAllInactive ==
    LET inactive == {i \in 1..Len(df_emp) : df_emp[i].Status = Inactive}
        flipped == [i \in 1..Len(df_emp) |->
                      IF i \in inactive
                      THEN [df_emp[i] EXCEPT !.Status = Active]
                      ELSE df_emp[i]]
    IN
    /\ IF Cardinality(inactive) > 0
       THEN /\ df_emp' = [i \in 1..Len(df_emp) |->
                            IF i \in ActivateStamped(flipped)
                            THEN [flipped[i] EXCEPT !.LastUpdated = now]
                            ELSE flipped[i]]
            /\ file' = write_workbook(df_emp', df_dept)
            /\ last' = [op |-> "activate_all", res |-> "ok", wrote |-> TRUE,
                        ids |-> {}, reused |-> {},
                        inactive_count |-> Cardinality(inactive)]
       ELSE /\ last' = Did("activate_all", "none", FALSE)
            /\ UNCHANGED <<df_emp, file>>
    /\ UNCHANGED <<df_dept, assigned>>
    /\ RestOfRun

\* Workbooks of up to two employees, each Active or Inactive, that carry a
\* Last Updated stamp older than the session or none.
StatusWorkbooks ==
    LET rowset(rid) == {EmpRow(rid, Blank, <<"n">>, <<"1">>, Blank, st, NoStamp) :
                           st \in {Active, Inactive}}
    IN  {[emp |-> e, dept |-> <<>>] :
            e \in {<<>>} \cup {<<r>> : r \in rowset(1)}
                    \cup {<<r, q>> : r \in rowset(1), q \in rowset(2)}}

InitStatus == \E f \in StatusWorkbooks : SessionStart(f)

\* The upload of the status specification: one Active employee; the Status
\* column is mapped or not (lines 1092-1120), and "Default Status" is left
\* on "(Use Mapped Value)" or set to "Inactive" (lines 1149-1151).
StatusBatch ==
    <<[EmployeeID |-> Blank, Name |-> <<"n">>, Extension |-> <<"3">>,
       Department |-> Blank, Status |-> Active]>>

StatusMappings == {SystemColumns, SystemColumns \ {"Status"}}

StatusDefaults == {NoFunction, [c \in {"Status"} |-> Inactive]}

NextStatus ==
    \/ ReloadFromExcel
    \/ ActivateAllInactive
    \/ \E name \in NameInputs, st \in {Active, Inactive} :
          AddEmployee(Blank, name, <<"2">>, Blank, st)
    \/ \E rid \in RowIds(df_emp), st \in {Active, Inactive} :
          UpdateEmployee(rid, Blank, <<"n">>, <<"1">>, Blank, st)
    \/ \E rid \in RowIds(df_emp) : DeleteEmployee(rid)
    \/ \E mapping \in StatusMappings, defaults \in StatusDefaults :
          BulkImport(StatusBatch, mapping, defaults, NoFunction)

SpecStatus == InitStatus /\ [][NextStatus]_vars

----------------------------------------------------------------------------
(* The edit form on its own (lines 638-729), with Reload.                  *)

NextEdit ==
    \/ ReloadFromExcel
    \/ \E rid \in RowIds(df_emp), eid \in EmpIdInputs, name \in NameInputs,
          ext \in ExtInputs :
          UpdateEmployee(rid, eid, name, ext, Blank, Active)
    \/ \E rid \in RowIds(df_emp) : DeleteEmployee(rid)

SpecEdit == InitEmp /\ [][NextEdit]_vars

----------------------------------------------------------------------------
(* The Row ID allocator on workbooks prepared by hand.                     *)

\* Workbooks of up to two employees whose Row ID cell is empty, a text that
\* is no number, or a number; the numbers are unique.
AllocWorkbooks ==
    LET rowset == {EmpRow(rid, Blank, <<"n">>, <<"1">>, Blank, Active, NoStamp) :
                      rid \in {NoRowId, TextRowId, 1, 2, 3}}
        ok(e) == \A i, j \in 1..Len(e) :
                    i # j /\ e[i].RowID > 0 => e[i].RowID # e[j].RowID
    IN  {[emp |-> e, dept |-> <<>>] : e \in {x \in SeqUpTo(rowset, 2) : ok(x)}}

InitAlloc == \E f \in AllocWorkbooks : SessionStart(f)

NextAlloc ==
    \/ ReloadFromExcel
    \/ \E ext \in {<<"1">>, <<"2">>} :
          AddEmployee(Blank, <<"n">>, ext, Blank, Active)
    \/ \E rid \in RowIds(df_emp) : DeleteEmployee(rid)

SpecAlloc == InitAlloc /\ [][NextAlloc]_vars

----------------------------------------------------------------------------
(* Persistence on its own: save(load()) applied to a workbook on disk.     *)

\* Most rounds of save(load()) applied to one workbook.
MaxRounds == 3

\* Workbooks as they can be found on disk: written by the portal or prepared
\* by hand, with Row IDs, Employee IDs, department texts, department names
\* and descriptions present or blank.
PersistWorkbooks ==
    LET rowset == {EmpRow(rid, eid, <<"n">>, <<"1">>, d, Active, NoStamp) :
                      rid \in {NoRowId, 1, 2}, eid \in {Blank, <<"a">>},
                      d \in {Blank, <<"A", " ">>}}
        ok(e) == \A i, j \in 1..Len(e) :
                    i # j /\ e[i].RowID # NoRowId => e[i].RowID # e[j].RowID
        deptset == {DeptRow(1, n, d) : n \in {Blank, <<"A">>},
                                      d \in {Blank, <<"d">>}}
    IN  {[emp |-> e, dept |-> d] :
            e \in {x \in SeqUpTo(rowset, 2) : ok(x)},
            d \in SeqUpTo(deptset, 1)}

\* The workbook f lies on disk and nothing has been loaded yet.
InitPersist ==
    \E f \in PersistWorkbooks :
        /\ file = f
        /\ df_emp = <<>>
        /\ df_dept = <<>>
        /\ sync_dept_actions = <<>>
        /\ show_dept_sync = FALSE
        /\ sync_widgets = NoFunction
        /\ dept_manage_actions = <<>>
        /\ show_dept_manage = FALSE
        /\ manage_widgets = NoFunction
        /\ now = 1
        /\ tmp = NoSave
        /\ assigned = {}
        /\ last = [op |-> "start", res |-> "ok", wrote |-> FALSE, ids |-> {},
                   reused |-> {}, rounds |-> 0, original |-> f, previous |-> f,
                   loaded |-> read_workbook(f)]

\* One round: read_workbook (lines 67-113), then write_workbook (lines
\* 116-135) of the tables read.
LoadSave ==
    /\ last.rounds < MaxRounds
    /\ df_emp' = read_workbook(file).emp
    /\ df_dept' = read_workbook(file).dept
    /\ file' = write_workbook(df_emp', df_dept')
    /\ last' = [last EXCEPT !.op = "load_save", !.wrote = TRUE,
                            !.rounds = @ + 1, !.previous = file,
                            !.loaded = [emp |-> df_emp, dept |-> df_dept]]
    /\ UNCHANGED <<sync_dept_actions, show_dept_sync, sync_widgets,
                   dept_manage_actions, show_dept_manage, manage_widgets,
                   now, tmp, assigned>>

NextPersist == LoadSave

SpecPersist == InitPersist /\ [][NextPersist]_vars

----------------------------------------------------------------------------
(* write_workbook step by step (lines 116-135): the temporary file is      *)
(* created, the two sheets are written to it, it is closed and it replaces *)
(* the workbook.  Any step before the replace can raise or the process can *)
(* stop there.                                                             *)

\* The ExcelWriter opened on the workbook itself.
ExcelWriterPath_target == "target"

\* Line 131: the path the ExcelWriter is opened on.
ExcelWriterPath == "tmp"

\* A handler has changed df_emp to emp and calls write_workbook; line 130
\* creates the temporary file, which is empty.
SaveStart(emp) ==
    /\ tmp.pc \in {"none", "replaced", "failed"}
    /\ emp # df_emp
    /\ df_emp' = emp
    /\ tmp' = [pc |-> "created", content |-> NoFunction, old |-> file]
    /\ UNCHANGED <<df_dept, file, sync_dept_actions, show_dept_sync,
                   sync_widgets, dept_manage_actions, show_dept_manage,
                   manage_widgets, now, assigned, last>>

\* Lines 132-133: one sheet is written to the file the writer is open on.
SaveSheet(pc, next_pc, sheet, rows) ==
    /\ tmp.pc = pc
    /\ IF ExcelWriterPath = "tmp"
       THEN /\ tmp' = [tmp EXCEPT !.pc = next_pc,
                                  !.content = [s \in DOMAIN @ \cup {sheet} |->
                                                 IF s = sheet THEN rows ELSE @[s]]]
            /\ UNCHANGED file
       ELSE /\ tmp' = [tmp EXCEPT !.pc = next_pc]
            /\ file' = [s \in (IF pc = "created" THEN {} ELSE DOMAIN file)
                                 \cup {sheet} |->
                           IF s = sheet THEN rows ELSE file[s]]
    /\ UNCHANGED <<df_emp, df_dept, sync_dept_actions, show_dept_sync,
                   sync_widgets, dept_manage_actions, show_dept_manage,
                   manage_widgets, now, assigned, last>>

SaveEmpSheet ==
    SaveSheet("created", "emp_written", "emp",
              [i \in 1..Len(df_emp) |-> WriteEmpRow(df_emp[i])])

SaveDeptSheet ==
    SaveSheet("emp_written", "dept_written", "dept",
              [i \in 1..Len(df_dept) |-> WriteDeptRow(df_dept[i])])

\* Line 134: tmp.close().
SaveClose ==
    /\ tmp.pc = "dept_written"
    /\ tmp' = [tmp EXCEPT !.pc = "closed"]
    /\ UNCHANGED <<df_emp, df_dept, file, sync_dept_actions, show_dept_sync,
                   sync_widgets, dept_manage_actions, show_dept_manage,
                   manage_widgets, now, assigned, last>>

\* Line 135: os.replace(tmp.name, path) puts the temporary file in the place
\* of the workbook in one step.
SaveReplace ==
    /\ tmp.pc = "closed"
    /\ file' = IF ExcelWriterPath = "tmp" THEN tmp.content ELSE file
    /\ tmp' = [tmp EXCEPT !.pc = "replaced"]
    /\ UNCHANGED <<df_emp, df_dept, sync_dept_actions, show_dept_sync,
                   sync_widgets, dept_manage_actions, show_dept_manage,
                   manage_widgets, now, assigned, last>>

\* A step raises (disk full, the replace refused) or the process stops
\* before the replace has happened: the rest of write_workbook does not run.
SaveFail ==
    /\ tmp.pc \in {"created", "emp_written", "dept_written", "closed"}
    /\ tmp' = [tmp EXCEPT !.pc = "failed"]
    /\ UNCHANGED <<df_emp, df_dept, file, sync_dept_actions, show_dept_sync,
                   sync_widgets, dept_manage_actions, show_dept_manage,
                   manage_widgets, now, assigned, last>>

\* The tables a handler can leave df_emp as: a row deleted, a row appended.
SaveTables ==
    {DropAt(df_emp, i) : i \in 1..Len(df_emp)}
        \cup {Append(df_emp, EmpRow(next_row_id(df_emp), Blank, <<"n">>, ext,
                                    Blank, Active, now)) :
                 ext \in {x \in ExtInputs \ {Blank} :
                            /\ Len(df_emp) < MaxEmp
                            /\ next_row_id(df_emp) <= MaxRowId}}

InitSave == \E f \in EmpWorkbooks \cup FormWorkbooks : SessionStart(f)

NextSave ==
    \/ \E emp \in SaveTables : SaveStart(emp)
    \/ SaveEmpSheet
    \/ SaveDeptSheet
    \/ SaveClose
    \/ SaveReplace
    \/ SaveFail

SpecSave == InitSave /\ [][NextSave]_vars

----------------------------------------------------------------------------
(* Claims about the employee table.                                        *)

\* The rows a handler appended are those past the old length of the table.
Appended == (Len(df_emp) + 1)..Len(df_emp')

AddedRows == last'.op \in {"add_emp", "bulk_import"} /\ last'.res = "ok"

\* C1: every addition (Quick Add, and every row a bulk-import commit
\* appends) gives the new row one plus the largest Row ID in the table
\* immediately before that row was added, or 1 when the table was empty.
C1_AdditionGetsMaxPlusOne ==
    [][AddedRows =>
        \A j \in Appended :
            df_emp'[j].RowID =
                IF j = 1 THEN 1
                ELSE MaxOf(RowIds(SubSeq(df_emp', 1, j - 1))) + 1]_vars

C4_DuplicateAddRejected ==
    [][last'.op = "add_emp" =>
        IF last'.res = "ok"
        THEN /\ Len(df_emp') = Len(df_emp) + 1
             /\ \/ df_emp'[Len(df_emp')].EmployeeID = Blank
                \/ \A i \in 1..Len(df_emp) :
                      df_emp[i].EmployeeID # df_emp'[Len(df_emp')].EmployeeID
        ELSE /\ UNCHANGED <<df_emp, df_dept, file>>
             /\ ~last'.wrote]_vars

\* A Quick Add was turned down for its Employee ID.
C4_Witness ==
    /\ last.op = "add_emp"
    /\ last.res = "duplicate"
    /\ \E i \in 1..Len(df_emp) : df_emp[i].EmployeeID \notin {Blank, NaN}

\* C5: no two employee rows carry the same non-blank Employee ID.
C5_EmployeeIdsUnique ==
    \A i, j \in 1..Len(df_emp) :
        (i # j /\ df_emp[i].EmployeeID \notin {Blank, NaN})
            => df_emp[i].EmployeeID # df_emp[j].EmployeeID

----------------------------------------------------------------------------
(* Claims about the departments.                                           *)

\* C6: no two rows of the Departments table have names that are equal
\* ignoring case.
C6_DeptNamesUniqueIgnoringCase ==
    \A i, j \in 1..Len(df_dept) :
        i # j => Lower(AsStr(df_dept[i].DepartmentName))
                    # Lower(AsStr(df_dept[j].DepartmentName))

\* C7: a rename saved in the Edit Department form, of the department at idx
\* from its old name to another, gives the new name to every employee whose
\* stripped Department is the old name and leaves the Department of every
\* other employee as it was.
C7_RenameCascadesToTrimmedMatches ==
    [][last'.op = "edit_dept" /\ last'.res = "ok" =>
        \A idx \in 1..Len(df_dept) :
            df_dept'[idx].DepartmentName # df_dept[idx].DepartmentName =>
                \A i \in 1..Len(df_emp) :
                    df_emp'[i].Department =
                        IF Strip(AsStr(df_emp[i].Department))
                              = df_dept[idx].DepartmentName
                        THEN df_dept'[idx].DepartmentName
                        ELSE df_emp[i].Department]_vars

\* C8: a Manage Departments apply whose one pending entry is the deletion
\* of a department removes that one department row and no other, removes
\* no employee, leaves blank the Department of every employee whose
\* Department was the deleted name, and leaves the other employees'
\* Department as it was.
C8_DeleteBlanksReferences ==
    [][(/\ last'.op = "manage_apply" /\ last'.res = "ok"
        /\ Len(dept_manage_actions) = 1
        /\ dept_manage_actions[1].action.action = "delete") =>
        LET dept_id == dept_manage_actions[1].key
            gone == {i \in 1..Len(df_dept) : df_dept[i].DeptID = dept_id}
        IN  /\ df_dept' = WithoutDept(df_dept, dept_id)
            /\ Cardinality(gone) = 1
            /\ Len(df_emp') = Len(df_emp)
            /\ \A i \in 1..Len(df_emp), g \in gone :
                  df_emp'[i].Department =
                      IF df_emp[i].Department = df_dept[g].DepartmentName
                      THEN Blank ELSE df_emp[i].Department]_vars

\* The orphaned names whose widgets, as they stand, choose no resolution.
SyncUnresolved ==
    {n \in DOMAIN sync_widgets :
        SyncEntry(n, sync_widgets[n], MissingDepts(file), ExistingDepts(file))
            = NoEntry}

\* C9: "Apply Changes" of the sync panel, pressed while an orphaned name has
\* no resolution chosen, changes neither table and writes nothing.
C9_UnresolvedOrphanBlocksApply ==
    [][last'.op = "sync_apply" /\ SyncUnresolved # {} =>
        /\ UNCHANGED <<df_emp, df_dept, file>>
        /\ ~last'.wrote]_vars

\* The orphaned names resolved as "map", and where to.
SyncMapped ==
    {n \in MissingDepts(file) \cap Keys(sync_dept_actions) :
        DictGet(sync_dept_actions, n).action = "map"}

\* C10: after a sync apply, every employee whose stripped Department was an
\* orphaned name mapped to an existing department has that department, the
\* employees whose Department was no resolved name keep theirs, and an
\* apply of nothing but maps leaves the number of departments as it was.
C10_MapMovesEmployeesToTarget ==
    [][last'.op = "sync_apply" /\ last'.res = "ok" =>
        /\ \A i \in 1..Len(df_emp) :
              LET d == Strip(AsStr(df_emp[i].Department))
              IN  /\ d \in SyncMapped =>
                        df_emp'[i].Department
                            = DictGet(sync_dept_actions, d).target
                  /\ d \notin Keys(sync_dept_actions) =>
                        df_emp'[i].Department = df_emp[i].Department
        /\ Keys(sync_dept_actions) = SyncMapped
              => Len(df_dept') = Len(df_dept)]_vars

----------------------------------------------------------------------------
(* Claims about bulk import, persistence and the department forms.         *)

\* No checkbox ticked for the duplicate records of the preview c.
NoOverride(c) ==
    [k \in DuplicateFileRows(c) |-> [import |-> FALSE, replace |-> FALSE]]

\* The record r of a batch repeats the Employee ID or the Extension of a row
\* of the table emp, or of a clean record of the batch on an earlier file row.
RepeatsEarlier(r, emp, clean) ==
    LET earlier == {i \in 1..Len(clean) : clean[i].FileRow < r.FileRow}
    IN  \/ /\ r.row.EmployeeID # Blank
            /\ \/ \E i \in 1..Len(emp) :
                      AsStr(emp[i].EmployeeID) = r.row.EmployeeID
               \/ \E i \in earlier :
                      clean[i].row.EmployeeID = r.row.EmployeeID
        \/ /\ r.row.Extension # Blank
            /\ \/ \E i \in 1..Len(emp) :
                      AsStr(emp[i].Extension) = r.row.Extension
               \/ \E i \in earlier :
                      clean[i].row.Extension = r.row.Extension

\* C11: a bulk-import commit with no duplicate checkbox ticked appends every
\* clean row and nothing else, leaves every existing row as it was, and
\* reports as imported the clean rows and as skipped the others; the rows it
\* holds as duplicates are those that repeat an Employee ID or an Extension
\* of the table or of a clean row earlier in the file.
C11_NoOverrideImportsCleanSkipsDuplicates ==
    [][last'.op = "bulk_import" /\ last'.selected_duplicates = 0 =>
       \A rows \in EmpBatches :
        LET c == BulkClassify(rows, SystemColumns, NoFunction, NoFunction)
            clean == c.preview_data
            dups == c.duplicate_records
        IN  BulkCommit(c, NoFunction, NoOverride(c)) =>
            /\ df_emp' = df_emp \o RowsOf(clean)
            /\ \A i \in 1..Len(clean) : ~RepeatsEarlier(clean[i], df_emp, clean)
            /\ \A i \in 1..Len(dups) : RepeatsEarlier(dups[i], df_emp, clean)
            /\ Len(clean) + Len(dups) + Len(c.error_records) = Len(rows)
            /\ last'.imported_count = Len(clean)
            /\ last'.will_skip = Len(rows) - Len(clean)
            /\ last'.errors =
                  Cardinality({k \in 1..Len(rows) :
                      Strip(rows[k].Name) = Blank
                        \/ Strip(rows[k].Extension) = Blank})]_vars

\* One clean row and one row with the Extension of an employee of the table
\* were committed with no checkbox ticked: 1 imported, 1 skipped, 0 errors.
C11_Witness ==
    /\ last.op = "bulk_import"
    /\ last.selected_duplicates = 0
    /\ last.imported_count = 1
    /\ last.will_skip = 1
    /\ last.errors = 0
    /\ Len(df_emp) = 2
    /\ df_emp[1].Extension # df_emp[2].Extension

\* C12: while write_workbook runs, after it has failed and after it has
\* ended, the workbook holds both sheets complete: the ones it held when the
\* save began until the replace has happened (so a failed save leaves them),
\* the ones of the tables being saved afterwards.
C12_WorkbookOldOrNew ==
    tmp.pc # "none" =>
        /\ DOMAIN file = {"emp", "dept"}
        /\ IF tmp.pc = "replaced"
           THEN file = write_workbook(df_emp, df_dept)
           ELSE file = tmp.old

\* A save of changed tables has failed with the temporary file half written.
C12_Witness ==
    /\ tmp.pc = "failed"
    /\ DOMAIN tmp.content = {"emp"}
    /\ tmp.old # write_workbook(df_emp, df_dept)

\* The workbook f holds the rows of the tables emp and dept, cell by cell.
Persisted(emp, dept, f) ==
    /\ Len(f.emp) = Len(emp)
    /\ \A i \in 1..Len(emp) : f.emp[i] = WriteEmpRow(emp[i])
    /\ Len(f.dept) = Len(dept)
    /\ \A i \in 1..Len(dept) : f.dept[i] = WriteDeptRow(dept[i])

\* The handlers that change a table.
MutatingOps ==
    {"add_emp", "update_emp", "delete_emp", "activate_all", "add_dept",
     "edit_dept", "delete_dept", "bulk_import", "sync_apply", "manage_apply"}

C15_DuplicateDepartmentRejected ==
    [][last'.op = "add_dept" =>
        \A dname \in DeptNameInputs :
            (/\ AddDepartment(dname, Blank)
             /\ \E i \in 1..Len(df_dept) :
                   Lower(AsStr(df_dept[i].DepartmentName)) = Lower(Strip(dname)))
            => /\ UNCHANGED <<df_emp, df_dept, file>>
               /\ ~last'.wrote
               /\ last'.res = "duplicate"]_vars

\* The form was refused for a name already taken, the table holding a
\* department and an employee.
C15_Witness ==
    /\ last.op = "add_dept"
    /\ last.res = "duplicate"
    /\ Len(df_dept) >= 1
    /\ Len(df_emp) >= 1

\* C16: "Activate All Inactive" sets every Inactive employee to Active and
\* stamps it, reports how many it flipped, and leaves every employee that
\* was Active already as it was, Last Updated included.
C16_ActivateStampsOnlyChanged ==
    [][last'.op = "activate_all" /\ last'.res = "ok" =>
        /\ Len(df_emp') = Len(df_emp)
        /\ \A i \in 1..Len(df_emp) :
              IF df_emp[i].Status = Inactive
              THEN df_emp'[i] = [df_emp[i] EXCEPT !.Status = Active,
                                                  !.LastUpdated = now]
              ELSE df_emp'[i] = df_emp[i]
        /\ last'.inactive_count =
              Cardinality({i \in 1..Len(df_emp) :
                              df_emp[i].Status = Inactive})]_vars


\* The rows of emp' that continue a row of emp (same Row ID) and differ
\* from it in some field.
ChangedRows(emp, emp2) ==
    {j \in 1..Len(emp2) :
        \E i \in 1..Len(emp) : /\ emp[i].RowID = emp2[j].RowID
                               /\ emp[i] # emp2[j]}

\* C17: every operation that changes a field of an employee row sets that
\* row's Last Updated to the time of the operation, the rename cascade and
\* the blanking done by the Edit Department form included.
C17_EveryChangeStamps ==
    [][last'.op # "reload" =>
        \A j \in ChangedRows(df_emp, df_emp') : df_emp'[j].LastUpdated = now]_vars


\* The two checkboxes of a duplicate: "Replace Existing" alone.
ReplaceOnly == [import |-> FALSE, replace |-> TRUE]

\* The employee a replacing row r is to overwrite: the first with r's
\* Employee ID, and when no employee has it the first with r's Extension;
\* 0 when there is neither.
ReplaceTarget(emp, r) ==
    LET by_id == {i \in 1..Len(emp) : /\ Strip(r.EmployeeID) # Blank
                                      /\ AsStr(emp[i].EmployeeID) = Strip(r.EmployeeID)}
        by_ext == {i \in 1..Len(emp) : /\ Strip(r.Extension) # Blank
                                       /\ AsStr(emp[i].Extension) = Strip(r.Extension)}
    IN  IF by_id # {} THEN FirstIndex(by_id) ELSE FirstIndex(by_ext)

\* C18: a file of one duplicate row ticked "Replace Existing" overwrites the
\* first employee with the row's Employee ID, or when there is none the
\* first employee with the row's Extension; that employee keeps its Row ID
\* and no row is appended.
C18_ReplaceOverwritesMatch ==
    [][last'.op = "bulk_import" /\ last'.selected_duplicates = 1
                                /\ last'.imported_count = 0 =>
        \A r \in EmpBulkRows :
            LET c == BulkClassify(<<r>>, SystemColumns, NoFunction, NoFunction)
                t == ReplaceTarget(df_emp, c.duplicate_records[1].row)
            IN  /\ Len(c.duplicate_records) = 1
                /\ BulkCommit(c, NoFunction,
                              [k \in DuplicateFileRows(c) |-> ReplaceOnly])
                => /\ t # 0
                   /\ df_emp' = [df_emp EXCEPT ![t] =
                         [c.duplicate_records[1].row EXCEPT
                             !.RowID = df_emp[t].RowID, !.LastUpdated = now]]]_vars


\* A missing department whose radio is on "Map to Existing" with no
\* department selected.
Unresolved(widgets) ==
    \E d \in DOMAIN widgets : /\ widgets[d].radio = "Map to Existing"
                              /\ widgets[d].map = Blank

\* C19: a commit pressed while a missing department is unresolved ("Map to
\* Existing" with no department selected) is refused: no department is
\* created, no employee is appended or updated, nothing is written.
C19_UnresolvedDepartmentRefused ==
    [][last'.op = "bulk_import" =>
        \A rows \in DeptBatches : \A widgets \in BulkDeptChoices(rows) :
            Unresolved(widgets) /\ BulkImportStep4(rows, widgets)
                => UNCHANGED <<df_emp, df_dept, file>>]_vars


----------------------------------------------------------------------------
(* Claims about the merges of the Manage Departments panel.                *)

\* The entries of dept_manage_actions are all merges of two different
\* departments.
MergesOnly(acts) ==
    /\ acts # <<>>
    /\ \A k \in 1..Len(acts) :
          /\ acts[k].action.action = "merge_two"
          /\ acts[k].action.dept1_id # acts[k].action.dept2_id

\* What one merge m of two departments is to leave behind: one of the two
\* rows, named final_name, and the employees of both under final_name.
MergeDone(m, emp, emp2, dept2) ==
    LET left == {i \in 1..Len(dept2) : dept2[i].DeptID \in {m.dept1_id, m.dept2_id}}
    IN  /\ Cardinality(left) = 1
        /\ \A i \in left : dept2[i].DepartmentName = m.final_name
        /\ \A i \in 1..Len(emp) :
              Strip(AsStr(emp[i].Department)) \in {m.dept1_name, m.dept2_name}
                  => emp2[i].Department = m.final_name

\* C20: after "Apply Changes" on a batch of merges of two departments, for
\* every merge exactly one of its two department rows is left, it is named
\* with the final name, and every employee of either department has the
\* final name; also with a merge recorded on each of the two departments.
C20_MergeLeavesOneSurvivor ==
    [][/\ last'.op = "manage_apply" /\ last'.res = "ok"
       /\ MergesOnly(dept_manage_actions)
       => \A k \in 1..Len(dept_manage_actions) :
             MergeDone(dept_manage_actions[k].action, df_emp, df_emp', df_dept')]_vars


----------------------------------------------------------------------------
(* Claims about sync apply, the allocator, the defaults and the edit form. *)

\* The pairs of orphaned names that some entry of sync_dept_actions merges.
SyncMergePairs ==
    {{n, DictGet(sync_dept_actions, n).merge_target} :
        n \in {k \in Keys(sync_dept_actions) :
                  DictGet(sync_dept_actions, k).action = "merge"}}

\* C21: a sync apply whose orphaned names are one pair merged on either or
\* both sides creates exactly one Department row, and every employee of the
\* two names ends with one and the same name, that of a department.
C21_MergePairProcessedOnce ==
    [][last'.op = "sync_apply" /\ last'.res = "ok" =>
        \A pair \in SyncMergePairs :
            MissingDepts(file) = pair /\ Keys(sync_dept_actions) \subseteq pair
            => /\ Len(df_dept') = Len(df_dept) + 1
               /\ \E k \in 1..Len(df_dept') :
                     \A i \in 1..Len(df_emp) :
                        Strip(AsStr(df_emp[i].Department)) \in pair
                            => df_emp'[i].Department
                                   = df_dept'[k].DepartmentName]_vars


\* The departments whose manage widgets stand on "Delete Department" while
\* employees are assigned to them (lines 2050-2053).
ManageDeleteReferenced ==
    {k \in 1..Len(df_dept) :
        /\ df_dept[k].DeptID \in DOMAIN manage_widgets
        /\ manage_widgets[df_dept[k].DeptID].action = "delete"
        /\ EmpCount(df_emp, Strip(AsStr(df_dept[k].DepartmentName))) > 0}

\* C22: "Apply Changes" of the manage panel with "Delete Department" chosen
\* for a department that employees reference deletes the department and
\* blanks the Department of those employees.
C22_DeleteNeverBlocked ==
    [][last'.op = "manage_apply" =>
        \A k \in ManageDeleteReferenced :
            /\ \A j \in 1..Len(df_dept') : df_dept'[j].DeptID # df_dept[k].DeptID
            /\ \A i \in 1..Len(df_emp) :
                  Strip(AsStr(df_emp[i].Department))
                      = Strip(AsStr(df_dept[k].DepartmentName))
                  => df_emp'[i].Department = Blank]_vars


\* The edit of row idx is to be rejected: the name or the extension is
\* blank, or the Employee ID is changed to a non-blank text that another
\* row carries.
EditRejected(idx, employee_id, name, extension) ==
    \/ Strip(name) = Blank
    \/ Strip(extension) = Blank
    \/ /\ Strip(employee_id) # Blank
       /\ Strip(employee_id) # AsStr(df_emp[idx].EmployeeID)
       /\ \E j \in 1..Len(df_emp) :
             j # idx /\ AsStr(df_emp[j].EmployeeID) = Strip(employee_id)

\* C23: "Save Changes" on the row with Row ID edit_id is rejected, with
\* every row and the workbook unchanged, when the name or the extension is
\* blank or the Employee ID is changed to one another row carries;
\* otherwise only that row changes, it takes the submitted values and the
\* time, and it keeps its Row ID.
C23_UpdateRejectsOrOverwrites ==
    [][last'.op = "update_emp" =>
        \A edit_id \in RowIds(df_emp), employee_id \in EmpIdInputs,
           name \in NameInputs, extension \in ExtInputs :
            UpdateEmployee(edit_id, employee_id, name, extension, Blank, Active)
            => LET idx == FirstIndex({i \in 1..Len(df_emp) :
                                         df_emp[i].RowID = edit_id})
               IN  IF EditRejected(idx, employee_id, name, extension)
                   THEN /\ UNCHANGED <<df_emp, df_dept, file>>
                        /\ last'.res # "ok"
                   ELSE /\ last'.res = "ok"
                        /\ Len(df_emp') = Len(df_emp)
                        /\ \A j \in 1..Len(df_emp) :
                              j # idx => df_emp'[j] = df_emp[j]
                        /\ df_emp'[idx].RowID = edit_id
                        /\ AsStr(df_emp'[idx].EmployeeID) = Strip(employee_id)
                        /\ df_emp'[idx].Name = Strip(name)
                        /\ df_emp'[idx].Extension = Strip(extension)
                        /\ df_emp'[idx].Department = Blank
                        /\ df_emp'[idx].Status = Active
                        /\ df_emp'[idx].LastUpdated = now]_vars

\* An edit that changed the Employee ID was saved, and another that would
\* have given a row the Employee ID of another row was rejected.
C23_Witness ==
    /\ last.op = "update_emp" /\ last.res = "duplicate"
    /\ \E i \in 1..Len(df_emp) : df_emp[i].LastUpdated = now


\* The Row IDs of emp that are numbers.
ParsableRowIds(emp) == {r \in RowIds(emp) : r > 0}

\* C24: the Row ID a Quick Add hands out is 1 when the table is empty or
\* none of its Row IDs is a number, and else one more than the largest
\* Row ID that is a number.
C24_AllocatorMaxPlusOneOrOne ==
    [][last'.op = "add_emp" /\ last'.res = "ok" =>
        last'.ids = {IF ParsableRowIds(df_emp) = {} THEN 1
                     ELSE MaxOf(ParsableRowIds(df_emp)) + 1}]_vars


\* C25: in a bulk import whose Status column is mapped, the imported row
\* carries the Status of its file row, whatever "Default Status" is set to.
C25_DefaultOnlyForUnmapped ==
    [][last'.op = "bulk_import" /\ last'.imported_count = 1 =>
        \A defaults \in StatusDefaults :
            BulkImport(StatusBatch, SystemColumns, defaults, NoFunction)
            => /\ Len(df_emp') = Len(df_emp) + 1
               /\ df_emp'[Len(df_emp')].Status = StatusBatch[1].Status]_vars


\* The names of the departments of dept.
DeptNames(dept) == {dept[i].DepartmentName : i \in 1..Len(dept)}

\* C26: after a sync apply that succeeds, every employee's Department is
\* empty or the name of a row of the Departments table.
C26_NoOrphanAfterSyncApply ==
    [][last'.op = "sync_apply" /\ last'.res = "ok" =>
        \A i \in 1..Len(df_emp') :
            \/ Strip(AsStr(df_emp'[i].Department)) \in {Blank, AsStr(NaN)}
            \/ Strip(AsStr(df_emp'[i].Department))
                  \in {Strip(AsStr(n)) : n \in DeptNames(df_dept')}]_vars


\* C27: a sync apply leaves every employee whose Department is no orphaned
\* name as it was, and creates no more Department rows than there are
\* orphaned names with an entry: an entry recorded for a name that is no
\* longer orphaned has no effect.
C27_StaleSyncEntryHasNoEffect ==
    [][last'.op = "sync_apply" /\ last'.res = "ok" =>
        /\ \A i \in 1..Len(df_emp) :
              Strip(AsStr(df_emp[i].Department)) \notin MissingDepts(file)
                  => df_emp'[i] = df_emp[i]
        /\ Len(df_dept') - Len(df_dept)
              <= Cardinality(Keys(sync_dept_actions) \cap MissingDepts(file))]_vars


\* The orphaned names that have a create recorded and whose widgets now
\* stand on "Map to Existing Department" or "Merge with Another Missing
\* Department" with nothing selected.
SyncSwitchedFromCreate ==
    {n \in DOMAIN sync_widgets \cap Keys(sync_dept_actions) :
        /\ DictGet(sync_dept_actions, n).action = "create"
        /\ \/ /\ sync_widgets[n].action = "map"
              /\ sync_widgets[n].target = Blank
           \/ /\ sync_widgets[n].action = "merge"
              /\ sync_widgets[n].merge_target = Blank}

\* C28: "Apply Changes" pressed while a name that was switched from create
\* to map or merge has no target selected is refused: the create recorded
\* earlier is not applied.
C28_SelectedResolutionApplies ==
    [][last'.op = "sync_apply" /\ SyncSwitchedFromCreate # {} =>
        /\ last'.res = "incomplete"
        /\ UNCHANGED <<df_emp, df_dept, file>>]_vars


\* Every employee's Department, stripped, is empty or the stripped name of
\* a department.
Closed(emp, dept) ==
    \A i \in 1..Len(emp) :
        Strip(AsStr(emp[i].Department))
            \in {Blank, AsStr(NaN)} \cup {Strip(AsStr(n)) : n \in DeptNames(dept)}

\* C29: "Apply Changes" of the manage panel, pressed when every employee's
\* Department is empty or names a department, leaves it so.
C29_ManageApplyKeepsClosure ==
    [][/\ last'.op = "manage_apply" /\ last'.res = "ok"
       /\ Closed(df_emp, df_dept)
       => Closed(df_emp', df_dept')]_vars


\* Line 652: the option the Department selectbox of the edit form shows
\* when the form is drawn on row: the row's Department when it is one of the
\* options, the empty first option otherwise.
EditDefaultDepartment(row) ==
    IF row.Department \in Range(dept_options) THEN row.Department ELSE Blank

\* C30: "Save Changes" of the edit form with the Department selectbox left
\* as it was drawn leaves the Department of a row that has one unchanged.
C30_UntouchedDepartmentKept ==
    [][\A rid \in RowIds(df_emp) :
          LET idx == FirstIndex({i \in 1..Len(df_emp) : df_emp[i].RowID = rid})
              row == df_emp[idx]
          IN  /\ Strip(AsStr(row.Department)) \notin {Blank, AsStr(NaN)}
              /\ UpdateEmployee(rid, Blank, <<"n">>, <<"1">>,
                                EditDefaultDepartment(row), Active)
              /\ last'.res = "ok"
              => df_emp'[idx].Department = row.Department]_vars

====
